---------------------------- MODULE Spec2Model ----------------------------
(***************************************************************************)
(* A model of zitrog (src/zitrog.py): the ID3v2 tag parser read_id3, its   *)
(* Unicode -> Shift-JIS correction loop with the accepted_corrections      *)
(* cache, and the writer write_id3, driven by main's loop over the input   *)
(* paths.  Bytes are integers 0..255, byte strings and texts are           *)
(* sequences (a text is a sequence of code points).                        *)
(***************************************************************************)
EXTENDS Integers, Sequences, FiniteSets, TLC

VARIABLES
    preserved_tags,         \* main: arguments.preserve
    automatic_correction,   \* main: arguments.automatic
    auto_overwrite,         \* main: arguments.overwrite
    accepted_corrections,   \* the module-level dictionary (line 48)
    stdin_left,             \* lines of console input not yet consumed by input()
    pc,                     \* where the process is
    error,                  \* the exception that ended the process ("" if none)
    file_count,             \* input paths main has started on
    input_file,             \* the bytes of the current input path
    same_path,              \* the output path is the input path itself
    src,                    \* how the current input was laid out (history only)
    pos,                    \* input_file.tell()
    id3_definition,         \* read_id3's dictionary: header, frames, content_offset
    cur,                    \* the current frame's locals inside the correction loop
    output_file,            \* what is at the current output path
    pre_output,             \* what was there when main started on this input (history)
    status,                 \* what write_id3 did for this input
    frame_log,              \* every frame record the loop interpreted (history)
    resolved,               \* first accepted substitute per decoded text (history)
    size_in, size_bytes, size_out   \* the synchsafe codec applied on its own

vars == <<preserved_tags, automatic_correction, auto_overwrite, accepted_corrections,
          stdin_left, pc, error, file_count, input_file, same_path, src, pos,
          id3_definition, cur, output_file, pre_output, status, frame_log, resolved,
          size_in, size_bytes, size_out>>

---------------------------------------------------------------------------
(* Bounds of the model.                                                    *)

\* frame records in one generated input file
MaxFrames == 2
\* input paths in one run
MaxFiles == 2
\* lines available on the console before input() meets end of file
MaxAnswers == 2

---------------------------------------------------------------------------
(* Program constants.                                                      *)

ID3_DATA_FLAG_SIZE == 2
ID3_DELIMITER == <<0>>
\* ID3_DELIMITER * 32, the buffer write_id3 appends to the frame block
BufferLen == 32
\* the writer formats the size as "{:028b}"
SizeBits == 28
\* wrap(..., 7)
GroupBits == 7

Min(a, b) == IF a < b THEN a ELSE b
Max(a, b) == IF a > b THEN a ELSE b

RECURSIVE Concat(_)
\* b"".join / "".join of a sequence of sequences
Concat(ss) == IF ss = <<>> THEN <<>> ELSE Head(ss) \o Concat(Tail(ss))

Zeros(n) == [i \in 1..n |-> 0]

\* Python's s[a:b] for a >= 0 and any integer b (negative b counts from the end)
PySlice(s, a, b) ==
    SubSeq(s, a + 1, IF b < 0 THEN Max(Len(s) + b, a) ELSE Max(Min(b, Len(s)), a))

\* Python's s[a:]
PyFrom(s, a) == PySlice(s, a, Len(s))

---------------------------------------------------------------------------
(* Text: the strings of the program, as sequences of code points.          *)

Str3(a, b, c) == <<a, b, c>>
Str4(a, b, c, d) == <<a, b, c, d>>

\* "TALB", "TPE1", "TPE2", "TCOP", "TPOS", "TCON", "TIT2", "TRCK", "TYER"
DEFAULT_PRESERVED_TAGS ==
    { Str4(84, 65, 76, 66), Str4(84, 80, 69, 49), Str4(84, 80, 69, 50),
      Str4(84, 67, 79, 80), Str4(84, 80, 79, 83), Str4(84, 67, 79, 78),
      Str4(84, 73, 84, 50), Str4(84, 82, 67, 75), Str4(84, 89, 69, 82) }

\* bytes.decode("ISO-8859-1"): byte b is code point b; it never fails
DecodeISO(bytes) == bytes

\* str.encode("ISO-8859-1") of a tag name (all its code points are below 256)
EncodeISO(text) == text

\* one character against the class [A-Z0-9]
IsTagChar(c) == (c >= 65 /\ c <= 90) \/ (c >= 48 /\ c <= 57)

\* a faulty variant of ValidTagName: the class is [!-Z], so "T!T2" is a frame
ValidTagNameLoose(tag_name) ==
    Len(tag_name) = 4 /\ \A i \in 1..4 : tag_name[i] >= 33 /\ tag_name[i] <= 90

\* re_search(r"^[A-Z0-9]{4}$", tag_name): tag_name holds at most 4 characters,
\* so the newline that $ tolerates cannot follow a match
ValidTagName(tag_name) ==
    Len(tag_name) = 4 /\ \A i \in 1..4 : IsTagChar(tag_name[i])

---------------------------------------------------------------------------
(* The codecs the program calls (CPython's "Shift-JIS", "UTF-16") and      *)
(* unidecode, each restricted to the code points the model's texts use.    *)

\* code points with a two-byte Shift-JIS form that the model's texts use:
\* U+3042 HIRAGANA LETTER A is 0x82 0xA0
HIRAGANA_A == 12354

\* whether char.encode("Shift-JIS") succeeds.  ASCII is kept, U+00A5 and U+203E
\* go to 0x5C and 0x7E, half-width katakana U+FF61..U+FF9F to 0xA1..0xDF; of the
\* double-byte table only HIRAGANA_A is modelled, every other code point the
\* model uses (U+00E9, U+00F1) is unmappable.
CanEncodeChar(c) ==
    \/ (c >= 0 /\ c < 128)
    \/ c = 165
    \/ c = 8254
    \/ (c >= 65377 /\ c <= 65439)
    \/ c = HIRAGANA_A

\* char.encode("Shift-JIS") where it succeeds
EncodeChar(c) ==
    IF c >= 0 /\ c < 128 THEN <<c>>
    ELSE IF c = 165 THEN <<92>>
    ELSE IF c = 8254 THEN <<126>>
    ELSE IF c >= 65377 /\ c <= 65439 THEN <<c - 65216>>
    ELSE <<130, 160>>

\* data.encode("Shift-JIS") where it succeeds (the codec keeps no state)
EncodeSJIS(data) == Concat([i \in 1..Len(data) |-> EncodeChar(data[i])])

\* encode_data, lines 77-78, where the encoding succeeds
encode_data(data) == ID3_DELIMITER \o EncodeSJIS(data) \o ID3_DELIMITER

\* validate_data_encode, lines 80-85
validate_data_encode(data) == \A i \in 1..Len(data) : CanEncodeChar(data[i])

\* identify_encode_error_positions, lines 87-105: the 0-based positions of
\* the characters that fail on their own
identify_encode_error_positions(data) ==
    { i \in 0..(Len(data) - 1) : ~CanEncodeChar(data[i + 1]) }

\* unidecode(char): an ASCII string; "" for a code point it has no entry for
unidecode(c) ==
    IF c >= 0 /\ c < 128 THEN <<c>>
    ELSE IF c = 233 THEN <<101>>
    ELSE IF c = 241 THEN <<110>>
    ELSE IF c = HIRAGANA_A THEN <<97>>
    ELSE <<>>

\* suggest_data_changes, lines 107-112
suggest_data_changes(data, error_positions) ==
    Concat([i \in 1..Len(data) |->
        IF (i - 1) \notin error_positions THEN <<data[i]>>
        ELSE IF unidecode(data[i]) # <<data[i]>> THEN unidecode(data[i])
        ELSE <<95>>])

\* bytes.decode("Shift-JIS"): [ok, text].  Single bytes below 0x80 and
\* 0xA1..0xDF stand alone, 0x82 0xA0 is HIRAGANA_A, anything else the model's
\* byte strings can hold (0x80, 0xA0, 0xFD.., a lead byte before a byte that is
\* no trail byte) is an error.
RECURSIVE DecodeSJIS(_)
DecodeSJIS(bytes) ==
    IF bytes = <<>> THEN [ok |-> TRUE, text |-> <<>>]
    ELSE LET b == Head(bytes)
             one == DecodeSJIS(Tail(bytes))
         IN  IF b < 128
             THEN [ok |-> one.ok, text |-> <<b>> \o one.text]
             ELSE IF b >= 161 /\ b <= 223
             THEN [ok |-> one.ok, text |-> <<b + 65216>> \o one.text]
             ELSE IF b = 130 /\ Len(bytes) >= 2 /\ bytes[2] = 160
             THEN LET two == DecodeSJIS(Tail(Tail(bytes)))
                  IN  [ok |-> two.ok, text |-> <<HIRAGANA_A>> \o two.text]
             ELSE [ok |-> FALSE, text |-> <<>>]

\* a payload round-trips through the target encoding: it decodes, and what it
\* decodes to encodes back to the same bytes
RoundTripsSJIS(bytes) ==
    LET d == DecodeSJIS(bytes)
    IN  d.ok /\ validate_data_encode(d.text) /\ EncodeSJIS(d.text) = bytes

IsHighSurrogate(u) == u >= 55296 /\ u <= 56319
IsLowSurrogate(u) == u >= 56320 /\ u <= 57343

RECURSIVE DecodeUnits(_)
\* UTF-16 code units to code points: [ok, text]; a surrogate without its
\* partner is an error
DecodeUnits(units) ==
    IF units = <<>> THEN [ok |-> TRUE, text |-> <<>>]
    ELSE LET u == Head(units)
         IN  IF IsHighSurrogate(u)
             THEN IF Len(units) >= 2 /\ IsLowSurrogate(units[2])
                  THEN LET r == DecodeUnits(Tail(Tail(units)))
                       IN  [ok |-> r.ok,
                            text |-> <<65536 + (u - 55296) * 1024 + (units[2] - 56320)>>
                                     \o r.text]
                  ELSE [ok |-> FALSE, text |-> <<>>]
             ELSE IF IsLowSurrogate(u) THEN [ok |-> FALSE, text |-> <<>>]
             ELSE LET r == DecodeUnits(Tail(units))
                  IN  [ok |-> r.ok, text |-> <<u>> \o r.text]

\* bytes.decode("UTF-16"): [ok, text].  A leading FF FE or FE FF sets the byte
\* order and is dropped; without one the order is little-endian.  An odd
\* number of bytes is an error (truncated data).
DecodeUTF16(bytes) ==
    LET le_bom == Len(bytes) >= 2 /\ bytes[1] = 255 /\ bytes[2] = 254
        be_bom == Len(bytes) >= 2 /\ bytes[1] = 254 /\ bytes[2] = 255
        body == IF le_bom \/ be_bom THEN PyFrom(bytes, 2) ELSE bytes
        n == Len(body) \div 2
        units == [i \in 1..n |->
                    IF be_bom THEN body[2 * i - 1] * 256 + body[2 * i]
                    ELSE body[2 * i] * 256 + body[2 * i - 1]]
    IN  IF Len(body) % 2 = 1 THEN [ok |-> FALSE, text |-> <<>>]
        ELSE DecodeUnits(units)

IsSpace(c) == c \in {9, 10, 11, 12, 13, 28, 29, 30, 31, 32, 133, 160}

RECURSIVE LStrip(_)
LStrip(s) == IF s # <<>> /\ IsSpace(Head(s)) THEN LStrip(Tail(s)) ELSE s

RECURSIVE RStrip(_)
RStrip(s) ==
    IF s # <<>> /\ IsSpace(s[Len(s)]) THEN RStrip(SubSeq(s, 1, Len(s) - 1)) ELSE s

\* str.strip()
Strip(s) == RStrip(LStrip(s))

---------------------------------------------------------------------------
(* The synchsafe size field.                                               *)

RECURSIVE BitsOf(_)
\* the binary digits of n >= 0, most significant first, no leading zeros
\* (<<>> for 0)
BitsOf(n) == IF n = 0 THEN <<>> ELSE BitsOf(n \div 2) \o <<n % 2>>

\* "{:0<w>b}".format(n): at least w digits, zero-padded on the left
FormatBits(n, w) ==
    LET b == BitsOf(n) IN IF Len(b) >= w THEN b ELSE Zeros(w - Len(b)) \o b

RECURSIVE IntOfBits(_)
\* int(digits, 2)
IntOfBits(bits) ==
    IF bits = <<>> THEN 0
    ELSE 2 * IntOfBits(SubSeq(bits, 1, Len(bits) - 1)) + bits[Len(bits)]

\* textwrap.wrap(digits, w) of a string without spaces: pieces of w digits
\* from the left, the last one shorter when the length is no multiple of w
Wrap(digits, w) ==
    [k \in 1..((Len(digits) + w - 1) \div w) |->
        SubSeq(digits, (k - 1) * w + 1, Min(k * w, Len(digits)))]

\* a faulty variant of SynchsafeInt: the groups are joined without the "0" prefix
SynchsafeIntUnpadded(n) == IntOfBits(Concat(Wrap(FormatBits(n, SizeBits), GroupBits)))

\* write_id3, lines 289-291: the digits handed to int(..., 2), each group
\* of 7 behind a "0"
SynchsafeDigits(n) ==
    LET groups == Wrap(FormatBits(n, SizeBits), GroupBits)
    IN  Concat([k \in 1..Len(groups) |-> <<0>> \o groups[k]])

\* write_id3, lines 288-292: the integer whose 4 bytes are written
SynchsafeInt(n) == IntOfBits(SynchsafeDigits(n))

\* whether int(digits, 2).to_bytes(4, "big") succeeds: the value is below
\* 2^32 (to_bytes raises OverflowError otherwise)
FitsBytes4(digits) == \A i \in 1..(Len(digits) - 32) : digits[i] = 0

\* int.to_bytes(4, "big") where the value fits
ToBytes4(v) ==
    <<(v \div 16777216) % 256, (v \div 65536) % 256, (v \div 256) % 256, v % 256>>

RECURSIVE FromBytesUpTo(_, _)
\* the first n bytes as a big-endian number
FromBytesUpTo(bytes, n) ==
    IF n = 0 THEN 0 ELSE 256 * FromBytesUpTo(bytes, n - 1) + bytes[n]

\* int.from_bytes(bytes, "big")
FromBytes(bytes) == FromBytesUpTo(bytes, Len(bytes))

\* read_id3, lines 131-136: the low 7 bits of each byte, joined.
\* (int("", 2) raises ValueError: see HeaderTooShort.)
DecodeSize(id3_size_encoded) ==
    IntOfBits(Concat([k \in 1..Len(id3_size_encoded) |->
        PyFrom(FormatBits(id3_size_encoded[k], 8), 1)]))

---------------------------------------------------------------------------
(* The input files of a run.  A file is laid out from a list of frame      *)
(* records the way read_id3 expects to find them: 10-byte header (magic,   *)
(* 3 bytes, synchsafe size), then per frame a 4-byte identifier, a 4-byte  *)
(* big-endian length, 2 flag bytes and the payload, then padding, then the *)
(* audio.                                                                  *)

TIT2 == Str4(84, 73, 84, 50)
COMM == Str4(67, 79, 77, 77)
\* "1234"
DIGITS == Str4(49, 50, 51, 52)
\* "T!T2"
SYMBOL == Str4(84, 33, 84, 50)

\* a preservation set given with -p: COMM and 1234, and not TIT2
CustomPreserved == {COMM, DIGITS}

\* payloads: indicator byte, text, delimiter
\* ISO-8859-1 "A"
IsoA == <<0, 65, 0>>
\* ISO-8859-1 "e acute": 0xE9, which no Shift-JIS string holds before 0x00
IsoE == <<0, 233, 0>>
\* UTF-16 (BOM, little-endian) "e acute", U+00E9: not in Shift-JIS
UniE == <<1, 255, 254, 233, 0, 0, 0>>
\* UTF-16 HIRAGANA LETTER A, U+3042: in Shift-JIS
UniHira == <<1, 255, 254, 66, 48, 0, 0>>
\* UTF-16 cut in the middle of a code unit: it cannot be decoded
UniBad == <<1, 255, 254, 65, 0, 0>>

FrameRec(tag, flags, data) == [tag |-> tag, flags |-> flags, data |-> data]

FrameChoices ==
    { FrameRec(TIT2, <<0, 0>>, IsoA), FrameRec(TIT2, <<0, 0>>, IsoE),
      FrameRec(TIT2, <<0, 0>>, UniE), FrameRec(TIT2, <<0, 0>>, UniHira),
      FrameRec(TIT2, <<0, 0>>, UniBad), FrameRec(COMM, <<0, 0>>, UniE),
      FrameRec(DIGITS, <<64, 0>>, IsoA) }

\* one frame record on disk (payloads here are shorter than 256 bytes)
RecordBytes(f) == f.tag \o <<0, 0, 0, Len(f.data)>> \o f.flags \o f.data

BlockBytes(frames) == Concat([i \in 1..Len(frames) |-> RecordBytes(frames[i])])

\* a size below 2^14 as the 4 synchsafe bytes of a header
SizeField(n) == <<0, 0, n \div 128, n % 128>>

\* "ID3", version 3, no flags
GoodHeader == <<73, 68, 51, 3, 0, 0>>
\* "XD3": not the magic
BadHeader == <<88, 68, 51, 3, 0, 0>>

\* the first bytes of an MPEG audio stream
Audio == <<255, 251, 144>>
Padding == Zeros(10)

\* [bytes, frames, exact]: the file, the frame records laid out in it, and
\* whether what follows them is no frame record (padding, a bad identifier,
\* the end of the file)
InputRec(bytes, frames, exact) == [bytes |-> bytes, frames |-> frames, exact |-> exact]

Bodies == UNION { [1..n -> FrameChoices] : n \in 0..MaxFrames }

\* header with the right size, the frames, padding, audio
NormalFile(frames) ==
    InputRec(GoodHeader \o SizeField(Len(BlockBytes(frames)) + Len(Padding))
               \o BlockBytes(frames) \o Padding \o Audio,
             frames, TRUE)

OneIsoA == <<FrameRec(TIT2, <<0, 0>>, IsoA)>>
OneUniE == <<FrameRec(TIT2, <<0, 0>>, UniE)>>

SpecialFiles ==
    { \* the magic is wrong
      InputRec(BadHeader \o SizeField(Len(BlockBytes(OneIsoA)) + Len(Padding))
                 \o BlockBytes(OneIsoA) \o Padding \o Audio, OneIsoA, TRUE),
      \* the file ends inside the header, before the size field
      InputRec(GoodHeader, <<>>, TRUE),
      \* the file ends inside the size field
      InputRec(GoodHeader \o <<0, 0>>, <<>>, TRUE),
      \* the header declares size 0, the frames follow all the same
      InputRec(GoodHeader \o SizeField(0) \o BlockBytes(OneIsoA) \o Padding \o Audio,
               OneIsoA, TRUE),
      \* no padding, and the bytes after the tag start like a frame record
      InputRec(GoodHeader \o SizeField(Len(BlockBytes(OneUniE)))
                 \o BlockBytes(OneUniE) \o BlockBytes(OneIsoA) \o Audio, OneUniE, FALSE),
      \* an identifier with a symbol in it follows the frames
      InputRec(GoodHeader \o SizeField(2 * Len(BlockBytes(OneIsoA)) + Len(Padding))
                 \o BlockBytes(OneIsoA)
                 \o RecordBytes(FrameRec(SYMBOL, <<0, 0>>, IsoA)) \o Padding \o Audio,
               OneIsoA, TRUE),
      \* the file ends right after the frames
      InputRec(GoodHeader \o SizeField(Len(BlockBytes(OneIsoA))) \o BlockBytes(OneIsoA),
               OneIsoA, TRUE),
      \* the file ends inside a payload
      InputRec(GoodHeader \o SizeField(Len(BlockBytes(OneUniE)))
                 \o PySlice(BlockBytes(OneUniE), 0, -4), <<>>, FALSE) }

Files == { NormalFile(b) : b \in Bodies } \cup SpecialFiles

\* what input() can return
\* "", " ", "A", " A ", "n tilde" (U+00F1: not in Shift-JIS), "e acute"
CorrectionAnswers == { <<>>, <<32>>, <<65>>, <<32, 65, 32>>, <<241>>, <<233>> }
\* "y", "Y ", "n", "q"
YesNoAnswers == { <<121>>, <<89, 32>>, <<110>>, <<113>> }

\* what can be at the output path before write_id3 runs
Absent == [exists |-> FALSE, data |-> <<>>]
Existing(data) == [exists |-> TRUE, data |-> data]
\* a file left there by an earlier run
OldOutput == Existing(<<79, 76, 68>>)

---------------------------------------------------------------------------
(* State.                                                                  *)

NoCorrections == [t \in {} |-> <<>>]
BlankSrc == [frames |-> <<>>, exact |-> FALSE]
BlankDefinition == [header |-> <<>>, frames |-> <<>>, content_offset |-> 0]
BlankCur == [tag_name |-> <<>>, data_flags |-> <<>>, data_raw |-> <<>>,
             data_decoded |-> <<>>, alt_data_decoded |-> <<>>]

\* nothing read yet, the cache empty (line 48)
Blank ==
    /\ accepted_corrections = NoCorrections
    /\ error = ""
    /\ file_count = 0
    /\ input_file = <<>>
    /\ same_path = FALSE
    /\ src = BlankSrc
    /\ pos = 0
    /\ id3_definition = BlankDefinition
    /\ cur = BlankCur
    /\ output_file = Absent
    /\ pre_output = Absent
    /\ status = "none"
    /\ frame_log = <<>>
    /\ resolved = NoCorrections

\* main, lines 333-342: the arguments are parsed, no input path taken yet
Init ==
    /\ Blank
    /\ preserved_tags \in {DEFAULT_PRESERVED_TAGS, CustomPreserved}
    /\ automatic_correction \in BOOLEAN
    /\ auto_overwrite \in BOOLEAN
    /\ stdin_left \in 0..MaxAnswers
    /\ pc = "main"
    /\ size_in = 0
    /\ size_bytes = <<>>
    /\ size_out = 0

runVars == <<preserved_tags, automatic_correction, auto_overwrite>>
sizeVars == <<size_in, size_bytes, size_out>>
fileVars == <<input_file, same_path, src, pre_output>>

---------------------------------------------------------------------------
(* read_id3.                                                               *)

\* input_file.read(n) with the file position at p
Read(file, p, n) == PySlice(file, p, p + n)

\* the file position after input_file.read(n) at p
Advance(file, p, n) == Min(p + n, Len(file))

\* line 131 raises ValueError on int("", 2): the size field is empty when the
\* file holds fewer than 7 bytes
HeaderTooShort(id3_header) == PySlice(id3_header, 6, 10) = <<>>

\* line 146: the magic is not "ID3"
BadMagic(id3_header) == DecodeISO(PySlice(id3_header, 0, 3)) # Str3(73, 68, 51)

Crash(exception) ==
    /\ pc' = "crashed"
    /\ error' = exception

\* main, lines 343-344, and read_id3 up to its loop, lines 120-150: main takes
\* the next input path and read_id3 reads the header.  What is at the output
\* path is the environment's choice: nothing, a file of an earlier run, or
\* (the output directory being the input's own) the input file itself.
OpenInput(f, there) ==
    /\ pc = "main"
    /\ file_count < MaxFiles
    /\ file_count' = file_count + 1
    /\ input_file' = f.bytes
    /\ src' = [frames |-> f.frames, exact |-> f.exact]
    /\ same_path' = (there = "same")
    /\ output_file' = IF there = "absent" THEN Absent
                      ELSE IF there = "old" THEN OldOutput
                      ELSE Existing(f.bytes)
    /\ pre_output' = output_file'
    /\ status' = "none"
    /\ frame_log' = <<>>
    /\ cur' = BlankCur
    /\ LET id3_header == Read(f.bytes, 0, 10)
           id3_size == DecodeSize(PySlice(id3_header, 6, 10))
       IN  IF HeaderTooShort(id3_header)
           THEN /\ Crash("ValueError")
                /\ pos' = Len(id3_header)
                /\ id3_definition' = BlankDefinition
           ELSE IF BadMagic(id3_header)
           \* raise "Invalid ID3 identifier": raising a str is a TypeError
           THEN /\ Crash("TypeError")
                /\ pos' = Len(id3_header)
                /\ id3_definition' = BlankDefinition
           ELSE /\ pc' = "loop"
                /\ error' = error
                /\ pos' = Len(id3_header)
                /\ id3_definition' =
                       [header |-> PySlice(id3_header, 0, 6),
                        frames |-> <<>>,
                        content_offset |-> Len(id3_header) + id3_size]
    /\ UNCHANGED <<runVars, sizeVars, accepted_corrections, stdin_left, resolved>>

\* a faulty variant of LookupCorrection: the cache is not consulted
LookupCorrectionNone(corrections, data_decoded) == data_decoded

\* lines 201-204
LookupCorrection(corrections, data_decoded) ==
    IF data_decoded \in DOMAIN corrections THEN corrections[data_decoded]
    ELSE data_decoded

\* a faulty variant of StoreCorrection: the entry is filed under the substitute
StoreCorrectionBySubstitute(corrections, data_decoded, value) ==
    [t \in DOMAIN corrections \cup {value} |->
        IF t = value THEN value ELSE corrections[t]]

\* accepted_corrections[data_decoded] = value, lines 233 and 236
StoreCorrection(corrections, data_decoded, value) ==
    [t \in DOMAIN corrections \cup {data_decoded} |->
        IF t = data_decoded THEN value ELSE corrections[t]]

\* the history of first accepted substitutes: an entry is set once
Remember(first, data_decoded, value) ==
    IF data_decoded \in DOMAIN first THEN first
    ELSE [t \in DOMAIN first \cup {data_decoded} |->
             IF t = data_decoded THEN value ELSE first[t]]

\* a faulty variant of IsPreserved: every frame is retained
IsPreservedAll(tag_name, preserved) == TRUE

\* line 169
IsPreserved(tag_name, preserved) == tag_name \in preserved

\* line 199: data_encoded = data_raw
PassThrough(data_raw) == data_raw

\* a faulty variant of DecodeFailed: the error is swallowed
DecodeFailedNever(decoded) == FALSE

\* lines 173-188: the decode raised UnicodeDecodeError
DecodeFailed(decoded) == ~decoded.ok

\* lines 174-177 for a payload: [ok, text]
DecodePayload(data_raw) ==
    IF PySlice(data_raw, 0, 1) = <<1>>
    THEN DecodeUTF16(PySlice(data_raw, 1, -2))
    ELSE [ok |-> TRUE, text |-> DecodeISO(PySlice(data_raw, 1, -1))]

\* the dictionary appended at lines 240-245
Frame(tag_name, data_flags, data_encoded, data_is_unicode) ==
    [tag |-> tag_name, data_flags |-> data_flags, data |-> data_encoded,
     data_was_converted |-> data_is_unicode]

\* lines 240-245, and back to the top of the loop
AppendFrame(frame) ==
    /\ id3_definition' = [id3_definition EXCEPT !.frames = Append(@, frame)]
    /\ pc' = "loop"
    /\ error' = error
    /\ cur' = BlankCur

\* history: the last entry of the log gets the frame's outcome
LogOutcome(log, corrected) ==
    [log EXCEPT ![Len(log)] = [@ EXCEPT !.corrected = corrected, !.done = TRUE]]

\* lines 231-233: the suggestion is accepted (by the automatic policy, or by
\* an empty answer).  encode_data raises if the suggestion does not encode.
AcceptSuggestion(log, tag_name, data_flags, data_decoded, alt_data_decoded) ==
    LET suggested_data_decoded ==
            suggest_data_changes(alt_data_decoded,
                                 identify_encode_error_positions(alt_data_decoded))
    IN  IF ~validate_data_encode(suggested_data_decoded)
        THEN /\ Crash("UnicodeEncodeError")
             /\ UNCHANGED <<id3_definition, cur, accepted_corrections, resolved>>
             /\ frame_log' = log
        ELSE /\ AppendFrame(Frame(tag_name, data_flags,
                                  encode_data(suggested_data_decoded), TRUE))
             /\ accepted_corrections' =
                    StoreCorrection(accepted_corrections, data_decoded,
                                    suggested_data_decoded)
             /\ resolved' = Remember(resolved, data_decoded, suggested_data_decoded)
             /\ frame_log' = LogOutcome(log, TRUE)

\* history: whether the text had been resolved before, and by what
Known(entry, data_decoded) ==
    [entry EXCEPT !.kept = TRUE,
                  !.decoded = data_decoded,
                  !.known = data_decoded \in DOMAIN resolved,
                  !.first = IF data_decoded \in DOMAIN resolved
                            THEN resolved[data_decoded] ELSE <<>>]

\* the Container Parser's part of a turn of the loop, lines 152-196: the
\* record's header is read and checked, then its flags and payload are read,
\* the preservation set is asked, and the payload is decoded
ReadFrame ==
    /\ pc = "loop"
    /\ \E frame_header \in {Read(input_file, pos, 8)} :
       \E data_length \in {FromBytes(PySlice(frame_header, 4, 8))} :
       \E data_raw \in {Read(input_file,
                             Advance(input_file, pos, 8 + ID3_DATA_FLAG_SIZE),
                             data_length)} :
       \E decoded \in {DecodePayload(data_raw)} :
       LET frame_offset == pos
           tag_name == DecodeISO(PySlice(frame_header, 0, 4))
           flags_at == Advance(input_file, pos, 8)
           data_flags == Read(input_file, flags_at, ID3_DATA_FLAG_SIZE)
           data_at == Advance(input_file, flags_at, ID3_DATA_FLAG_SIZE)
           next_pos == Advance(input_file, data_at, data_length)
           data_is_unicode == PySlice(data_raw, 0, 1) = <<1>>
           entry == [offset |-> frame_offset, end |-> next_pos, tag |-> tag_name,
                     kept |-> FALSE, unicode |-> data_is_unicode,
                     decoded |-> <<>>, known |-> FALSE, first |-> <<>>,
                     corrected |-> FALSE, done |-> FALSE]
       IN  IF ~ValidTagName(tag_name)
           \* line 161: return id3_definition; main goes on to write_id3
           THEN /\ pc' = "write"
                /\ pos' = Advance(input_file, pos, 8)
                /\ UNCHANGED <<error, cur, frame_log>>
           ELSE IF ~IsPreserved(tag_name, preserved_tags)
           \* line 171: continue
           THEN /\ pc' = "loop"
                /\ pos' = next_pos
                /\ frame_log' = Append(frame_log, [entry EXCEPT !.done = TRUE])
                /\ UNCHANGED <<error, cur>>
           ELSE IF DecodeFailed(decoded)
           \* line 188: raise
           THEN /\ Crash("UnicodeDecodeError")
                /\ pos' = next_pos
                /\ frame_log' = Append(frame_log, [entry EXCEPT !.kept = TRUE])
                /\ UNCHANGED cur
           ELSE /\ pc' = "frame"
                /\ pos' = next_pos
                /\ frame_log' = Append(frame_log, Known(entry, decoded.text))
                /\ cur' = [BlankCur EXCEPT !.tag_name = tag_name,
                                           !.data_flags = data_flags,
                                           !.data_raw = data_raw,
                                           !.data_decoded = decoded.text]
                /\ error' = error
    /\ UNCHANGED <<runVars, sizeVars, fileVars, stdin_left, file_count, output_file,
                   status, id3_definition, accepted_corrections, resolved>>

\* the Text Transcoder's part of the turn, lines 198-250, up to the point
\* where it appends the frame, or waits for the console at line 227
Transcode ==
    /\ pc = "frame"
    /\ LET alt_data_decoded == LookupCorrection(accepted_corrections, cur.data_decoded)
       IN  IF PySlice(cur.data_raw, 0, 1) # <<1>>
           THEN /\ AppendFrame(Frame(cur.tag_name, cur.data_flags,
                                     PassThrough(cur.data_raw), FALSE))
                /\ frame_log' = LogOutcome(frame_log, FALSE)
                /\ UNCHANGED <<accepted_corrections, resolved>>
           ELSE IF validate_data_encode(alt_data_decoded)
           \* lines 208-209
           THEN /\ AppendFrame(Frame(cur.tag_name, cur.data_flags,
                                     encode_data(alt_data_decoded), TRUE))
                /\ frame_log' = LogOutcome(frame_log, FALSE)
                /\ UNCHANGED <<accepted_corrections, resolved>>
           ELSE IF automatic_correction
           \* lines 211-233 with manual_correction = ""
           THEN AcceptSuggestion(frame_log, cur.tag_name, cur.data_flags,
                                 cur.data_decoded, alt_data_decoded)
           \* line 227: input()
           ELSE /\ pc' = "prompt"
                /\ cur' = [cur EXCEPT !.alt_data_decoded = alt_data_decoded]
                /\ frame_log' = [frame_log EXCEPT ![Len(frame_log)].corrected = TRUE]
                /\ UNCHANGED <<error, id3_definition, accepted_corrections, resolved>>
    /\ UNCHANGED <<runVars, sizeVars, fileVars, stdin_left, file_count, pos,
                   output_file, status>>

\* lines 226-238: input() returns a line, and the loop goes on to the next
\* input() or to the append
Prompt(answer) ==
    /\ pc = "prompt"
    /\ stdin_left > 0
    /\ stdin_left' = stdin_left - 1
    /\ LET manual_correction == Strip(answer)
       IN  IF manual_correction = <<>>
           THEN AcceptSuggestion(frame_log, cur.tag_name, cur.data_flags,
                                 cur.data_decoded, cur.alt_data_decoded)
           ELSE IF validate_data_encode(manual_correction)
           \* lines 234-236
           THEN /\ AppendFrame(Frame(cur.tag_name, cur.data_flags,
                                     encode_data(manual_correction), TRUE))
                /\ accepted_corrections' =
                       StoreCorrection(accepted_corrections, cur.data_decoded,
                                       manual_correction)
                /\ resolved' = Remember(resolved, cur.data_decoded, manual_correction)
                /\ frame_log' = LogOutcome(frame_log, TRUE)
           \* line 238, and around the loop to the next input()
           ELSE /\ cur' = [cur EXCEPT !.alt_data_decoded = manual_correction]
                /\ UNCHANGED <<pc, error, id3_definition, accepted_corrections,
                               resolved, frame_log>>
    /\ UNCHANGED <<runVars, sizeVars, fileVars, file_count, pos, output_file, status>>

\* input() at the end of the console input raises EOFError
PromptEOF ==
    /\ pc = "prompt"
    /\ stdin_left = 0
    /\ Crash("EOFError")
    /\ UNCHANGED <<runVars, sizeVars, fileVars, stdin_left, file_count, pos,
                   id3_definition, cur, accepted_corrections, resolved, frame_log,
                   output_file, status>>

---------------------------------------------------------------------------
(* write_id3.                                                              *)

\* str.lower() on the letters A-Z
Lower(text) ==
    [i \in 1..Len(text) |->
        IF text[i] >= 65 /\ text[i] <= 90 THEN text[i] + 32 ELSE text[i]]

\* a faulty variant of AssembleFrame: the flag bytes are written before the length
AssembleFrameFlagsFirst(frame) ==
    EncodeISO(frame.tag) \o frame.data_flags \o ToBytes4(Len(frame.data)) \o frame.data

\* lines 278-281
AssembleFrame(frame) ==
    EncodeISO(frame.tag) \o ToBytes4(Len(frame.data)) \o frame.data_flags \o frame.data

\* lines 276-283
AssembleFrames(frames) ==
    Concat([i \in 1..Len(frames) |-> AssembleFrame(frames[i])]) \o Zeros(BufferLen)

\* lines 297-299: what input_file.read() returns after seek(content_offset);
\* seeking past the end of a file and reading gives b""
TrailingPayload(on_disk, content_offset) == PyFrom(on_disk, content_offset)

\* lines 285-299.  The output file is opened "wb" (created empty) before the
\* input path is opened again.  When both are the same path the input was
\* removed at line 272 and the path now names the new file, of which nothing
\* has reached the disk: the header and the frame block written so far are
\* far shorter than the writer's buffer.
WriteOutput ==
    LET assembled_frames == AssembleFrames(id3_definition.frames)
        size == SynchsafeInt(Len(assembled_frames))
        on_disk == IF same_path THEN <<>> ELSE input_file
    IN  IF ~FitsBytes4(SynchsafeDigits(Len(assembled_frames)))
        \* to_bytes raises OverflowError; the output file stays, with the header
        THEN /\ Crash("OverflowError")
             /\ output_file' = Existing(id3_definition.header)
             /\ status' = status
        ELSE /\ pc' = "done"
             /\ error' = error
             /\ output_file' =
                    Existing(id3_definition.header \o ToBytes4(size) \o assembled_frames
                             \o TrailingPayload(on_disk, id3_definition.content_offset))
             /\ status' = "written"

writeFrame == <<runVars, sizeVars, fileVars, file_count, pos, id3_definition, cur,
                accepted_corrections, resolved, frame_log>>

\* lines 253-301 when line 268 asks nothing: auto_overwrite, or no file at
\* the output path.  os_remove removes what is there; OSError is passed over.
WriteDirect ==
    /\ pc = "write"
    /\ auto_overwrite \/ ~output_file.exists
    /\ WriteOutput
    /\ UNCHANGED <<writeFrame, stdin_left>>

\* lines 253-268: a file is at the output path and yes_no asks
WriteAsk ==
    /\ pc = "write"
    /\ ~auto_overwrite /\ output_file.exists
    /\ pc' = "confirm"
    /\ UNCHANGED <<writeFrame, stdin_left, error, output_file, status>>

\* yes_no, lines 63-70, one input(), and the rest of write_id3 after it
Confirm(answer) ==
    /\ pc = "confirm"
    /\ stdin_left > 0
    /\ stdin_left' = stdin_left - 1
    /\ LET decision == Lower(Strip(answer))
       IN  IF decision = <<121>>
           THEN WriteOutput
           ELSE IF decision = <<110>>
           \* lines 269-270: "File skipped."
           THEN /\ pc' = "done"
                /\ status' = "skipped"
                /\ UNCHANGED <<error, output_file>>
           ELSE UNCHANGED <<pc, error, output_file, status>>
    /\ UNCHANGED writeFrame

\* yes_no's input() at the end of the console input: EOFError, which the
\* except OSError of line 273 does not catch
ConfirmEOF ==
    /\ pc = "confirm"
    /\ stdin_left = 0
    /\ Crash("EOFError")
    /\ UNCHANGED <<writeFrame, stdin_left, output_file, status>>

\* main, line 343: write_id3 has returned; the locals of the calls are gone
Return ==
    /\ pc = "done"
    /\ pc' = "main"
    /\ input_file' = <<>>
    /\ same_path' = FALSE
    /\ src' = BlankSrc
    /\ pos' = 0
    /\ id3_definition' = BlankDefinition
    /\ cur' = BlankCur
    /\ output_file' = Absent
    /\ pre_output' = Absent
    /\ status' = "none"
    /\ frame_log' = <<>>
    /\ UNCHANGED <<runVars, sizeVars, accepted_corrections, resolved, stdin_left,
                   error, file_count>>

\* main, line 343: no input path is left
Exit ==
    /\ pc = "main"
    /\ file_count >= 1
    /\ pc' = "exit"
    /\ UNCHANGED <<runVars, sizeVars, fileVars, accepted_corrections, resolved,
                   stdin_left, error, file_count, pos, id3_definition, cur,
                   output_file, status, frame_log>>

Next ==
    \/ \E f \in Files, there \in {"absent", "old", "same"} : OpenInput(f, there)
    \/ ReadFrame
    \/ Transcode
    \/ \E answer \in CorrectionAnswers : Prompt(answer)
    \/ PromptEOF
    \/ WriteDirect
    \/ WriteAsk
    \/ \E answer \in YesNoAnswers : Confirm(answer)
    \/ ConfirmEOF
    \/ Return
    \/ Exit

Spec == Init /\ [][Next]_vars

\* the process is not suspended for ever inside read_id3: the loop takes its
\* next turn, and input() returns a line or meets the end of the input
FairSpec ==
    /\ Spec
    /\ WF_vars(ReadFrame)
    /\ WF_vars(Transcode)
    /\ WF_vars(\E answer \in CorrectionAnswers : Prompt(answer))
    /\ WF_vars(PromptEOF)

---------------------------------------------------------------------------
(* The synchsafe codec on its own: the writer's encoding of a size, then   *)
(* the reader's decoding of the bytes.                                     *)

\* the values a 7-bit group takes
SizeDigits == {0, 1, 63, 64, 127}

\* sizes below 2^28, by their four 7-bit groups
SizeInputs ==
    { a * 2097152 + b * 16384 + c * 128 + d : a, b, c, d \in SizeDigits }

SizeInit ==
    /\ Blank
    /\ preserved_tags = DEFAULT_PRESERVED_TAGS
    /\ automatic_correction = FALSE
    /\ auto_overwrite = FALSE
    /\ stdin_left = 0
    /\ pc = "size"
    /\ size_in \in SizeInputs
    /\ size_bytes = <<>>
    /\ size_out = 0

\* write_id3, lines 287-294
EncodeSize ==
    /\ pc = "size"
    /\ FitsBytes4(SynchsafeDigits(size_in))
    /\ size_bytes' = ToBytes4(SynchsafeInt(size_in))
    /\ pc' = "encoded"
    /\ UNCHANGED <<runVars, fileVars, accepted_corrections, resolved, stdin_left,
                   error, file_count, pos, id3_definition, cur, output_file, status,
                   frame_log, size_in, size_out>>

\* read_id3, lines 130-136
ReadSize ==
    /\ pc = "encoded"
    /\ size_out' = DecodeSize(size_bytes)
    /\ pc' = "decoded"
    /\ UNCHANGED <<runVars, fileVars, accepted_corrections, resolved, stdin_left,
                   error, file_count, pos, id3_definition, cur, output_file, status,
                   frame_log, size_in, size_bytes>>

SizeNext == EncodeSize \/ ReadSize

SizeSpec == SizeInit /\ [][SizeNext]_vars

---------------------------------------------------------------------------
(* Properties.                                                             *)

frames == id3_definition.frames

\* a log entry of a frame that was retained and appended
IsAppended(e) == e.kept /\ e.done

\* the log entries of the frames now in the Container, in order
Appended == SelectSeq(frame_log, IsAppended)

\* whether the bytes at p start with a frame identifier: 4 characters, each
\* of A-Z or 0-9
IdentifierAt(file, p) ==
    /\ Len(PySlice(file, p, p + 4)) = 4
    /\ \A i \in 1..4 : IsTagChar(file[p + i])

\* the identifiers of the frame records of a tag, read off its bytes from p
\* to the first thing that is no identifier
RECURSIVE ScanTags(_, _)
ScanTags(file, p) ==
    IF ~IdentifierAt(file, p) THEN <<>>
    ELSE <<PySlice(file, p, p + 4)>>
         \o ScanTags(file, Min(p + 10 + FromBytes(PySlice(file, p + 4, p + 8)),
                               Len(file)))

IsUnicodePayload(data) == PySlice(data, 0, 1) = <<1>>

\* C1: once a Unicode frame's decoded text has been resolved through the
\* correction loop, every later retained Unicode frame with the same decoded
\* text (in the same file or a later one) is appended without entering the
\* correction branch, so without a prompt, and its payload is the encoding of
\* the substitute accepted the first time.
C1_CachedSubstituteReused ==
    /\ Len(Appended) = Len(frames)
    /\ \A i \in 1..Len(frame_log) :
          (frame_log[i].kept /\ frame_log[i].unicode /\ frame_log[i].known)
              => ~frame_log[i].corrected
    /\ \A k \in 1..Len(Appended) :
          (Appended[k].unicode /\ Appended[k].known /\ k <= Len(frames))
              => frames[k].data = encode_data(Appended[k].first)

\* a second file's Unicode frame reuses the answer "A" typed at the first
\* occurrence of its text
C1_Witness ==
    /\ file_count = 2
    /\ ~automatic_correction
    /\ \E k \in 1..Len(Appended) :
          /\ Appended[k].unicode /\ Appended[k].known
          /\ Appended[k].first = <<65>>
          /\ Appended[k].decoded = <<233>>

\* C2: every frame in the Container has a payload that round-trips through
\* Shift-JIS.
C2_PayloadsEncodingValid ==
    \A k \in 1..Len(frames) : RoundTripsSJIS(frames[k].data)

\* C3: every frame in the Container has an identifier of the preservation
\* set; the Container's frames are the retained frame records of the file in
\* the order of their offsets, and for a laid-out file exactly its preserved
\* frames in their order; the frame block of a written output holds no
\* identifier outside the preservation set.
C3_OnlyPreservedInOrder ==
    /\ \A k \in 1..Len(frames) : frames[k].tag \in preserved_tags
    /\ Len(Appended) = Len(frames)
    /\ \A k \in 1..Len(Appended) :
          /\ k <= Len(frames) => frames[k].tag = PySlice(input_file, Appended[k].offset,
                                                         Appended[k].offset + 4)
          /\ \A j \in 1..(k - 1) : Appended[j].offset < Appended[k].offset
    /\ (pc \in {"write", "confirm", "done"} /\ src.exact)
          => LET kept == SelectSeq(src.frames, LAMBDA f : f.tag \in preserved_tags)
             IN  /\ Len(frames) = Len(kept)
                 /\ \A k \in 1..Len(kept) :
                       k <= Len(frames) =>
                           /\ frames[k].tag = kept[k].tag
                           /\ frames[k].data_flags = kept[k].flags
    /\ (pc = "done" /\ status = "written")
          => LET tags == ScanTags(output_file.data, 10)
             IN  \A k \in 1..Len(tags) : tags[k] \in preserved_tags

\* an output was written with a retained frame in it, for a file in which a
\* Unicode frame outside the preservation set was skipped
C3_Witness ==
    /\ pc = "done" /\ status = "written"
    /\ Len(frames) >= 1
    /\ \E i \in 1..Len(frame_log) : ~frame_log[i].kept /\ frame_log[i].unicode

\* C4: a written output is the 6-byte header, the synchsafe size of the frame
\* block, the frame block, then the input file's bytes from content_offset on.
C4_TrailingPayloadKept ==
    (pc = "done" /\ status = "written")
        => output_file.data =
               id3_definition.header
               \o SizeField(Len(AssembleFrames(frames)))
               \o AssembleFrames(frames)
               \o PyFrom(input_file, id3_definition.content_offset)

\* C5: for a file whose frames are all preserved and none Unicode, the frame
\* block written is the file's own sequence of frame records (identifier,
\* length, flags, payload, in order), followed by no further record.
C5_RoundTripUnmodified ==
    (/\ pc = "done" /\ status = "written"
     /\ src.exact
     /\ \A i \in 1..Len(src.frames) :
           /\ src.frames[i].tag \in preserved_tags
           /\ ~IsUnicodePayload(src.frames[i].data))
        => LET block == BlockBytes(src.frames)
           IN  /\ PySlice(output_file.data, 10, 10 + Len(block)) = block
               /\ ~IdentifierAt(output_file.data, 10 + Len(block))
               /\ Len(ScanTags(output_file.data, 10)) = Len(src.frames)

\* two different ISO frames, both preserved, were written back
C5_Witness ==
    /\ pc = "done" /\ status = "written"
    /\ src.exact
    /\ Len(src.frames) = 2
    /\ src.frames[1].data = IsoA /\ src.frames[2].data = IsoE
    /\ \A i \in 1..2 : src.frames[i].tag \in preserved_tags

\* C6: decoding the 4 bytes written for a size below 2^28 gives the size
\* back, and each of the bytes has its high bit clear.
C6_SynchsafeRoundTrip ==
    /\ pc = "decoded" => size_out = size_in
    /\ pc \in {"encoded", "decoded"} =>
          /\ Len(size_bytes) = 4
          /\ \A i \in 1..4 : size_bytes[i] < 128

\* the largest size, 2^28 - 1, went through
C6_Witness == pc = "decoded" /\ size_in = 268435455 /\ size_out = 268435455

\* C7: at a record whose identifier is not 4 characters of A-Z/0-9 the loop
\* returns the Container as it is, without an error; at one whose identifier
\* is (all digits included) it goes on as with a frame and the file position
\* moves forward; and the loop, prompts included, always comes to an end.
C7_LoopStops ==
    /\ [][pc = "loop" =>
            IF IdentifierAt(input_file, pos)
            THEN /\ pc' # "write"
                 /\ Len(frame_log') = Len(frame_log) + 1
                 /\ frame_log'[Len(frame_log')].tag = PySlice(input_file, pos, pos + 4)
                 /\ pos' > pos
            ELSE /\ pc' = "write"
                 /\ error' = ""
                 /\ id3_definition' = id3_definition]_vars
    /\ [](pc \in {"loop", "frame", "prompt"} => <>(pc \in {"write", "crashed"}))

\* the loop stopped without an error at the identifier "T!T2", with the frame
\* before it in the Container
C7_Witness ==
    /\ pc = "write"
    /\ error = ""
    /\ PySlice(input_file, pos - 8, pos - 4) = SYMBOL
    /\ Len(frames) = 1

\* whether the record at p is a preserved frame whose payload does not
\* decode under the encoding its first byte names
UndecodableAt(file, p, preserved) ==
    /\ IdentifierAt(file, p)
    /\ PySlice(file, p, p + 4) \in preserved
    /\ ~DecodePayload(PySlice(file, p + 10,
                              p + 10 + FromBytes(PySlice(file, p + 4, p + 8)))).ok

\* C8: a wrong magic and an undecodable preserved payload end the process
\* with an exception: no further frame is read, no Container is handed to
\* write_id3, and what is at the output path stays as it was.
C8_FatalAborts ==
    /\ [](pc = "crashed" /\ error \in {"TypeError", "ValueError", "UnicodeDecodeError"}
             => output_file = pre_output /\ status = "none")
    /\ [][/\ (pc = "main" /\ pc' \notin {"main", "exit"}
                /\ PySlice(input_file', 0, 3) # Str3(73, 68, 51))
             => (pc' = "crashed" /\ frames' = <<>> /\ output_file' = pre_output')
          /\ (pc = "loop" /\ UndecodableAt(input_file, pos, preserved_tags))
             => (pc' = "crashed" /\ id3_definition' = id3_definition
                 /\ output_file' = output_file)
          /\ pc # "crashed"]_vars

\* a payload failed to decode after a frame had been appended, with a file
\* of an earlier run at the output path
C8_Witness ==
    /\ pc = "crashed"
    /\ error = "UnicodeDecodeError"
    /\ Len(frames) = 1
    /\ output_file = OldOutput

\* C9: a step never removes or changes an entry of the cache, and adds one
\* only for the decoded text of a frame that went through the correction
\* branch because that text does not encode.
C9_CacheOnlyGrows ==
    [][/\ \A t \in DOMAIN accepted_corrections :
             /\ t \in DOMAIN accepted_corrections'
             /\ accepted_corrections'[t] = accepted_corrections[t]
       /\ accepted_corrections' # accepted_corrections
             => LET e == frame_log'[Len(frame_log')]
                IN  /\ e.corrected /\ e.done
                    /\ ~validate_data_encode(e.decoded)
                    /\ e.decoded \notin DOMAIN accepted_corrections
                    /\ DOMAIN accepted_corrections' =
                           DOMAIN accepted_corrections \cup {e.decoded}
                    /\ validate_data_encode(accepted_corrections'[e.decoded])]_vars

\* with an entry in the cache, a Unicode frame whose text encodes at once
\* was appended, and the cache holds that one entry still
C9_Witness ==
    /\ DOMAIN accepted_corrections = {<<233>>}
    /\ \E k \in 1..Len(Appended) :
          /\ Appended[k].unicode /\ ~Appended[k].corrected
          /\ Appended[k].decoded = <<HIRAGANA_A>>

\* C10: every frame record the loop interprets lies within the bytes
\* [10, content_offset) of the file.
C10_FramesInsideTag ==
    \A i \in 1..Len(frame_log) :
        /\ frame_log[i].offset >= 10
        /\ frame_log[i].end <= id3_definition.content_offset

=============================================================================
